---- MODULE Spec2Model ----
(***************************************************************************)
(* Customer CRUD service (ClienteService) over the relational store that   *)
(* models/modelo.py declares.  A column value is an option: {} is NULL /   *)
(* None, {v} is the value v.                                               *)
(*                                                                         *)
(* Spec        the HTTP operations on customers, one call at a time.       *)
(* SpecPedidos Create, GetByID and Delete with orders in the store.        *)
(* SpecConc    POST /clientes requests interleaved between their checks    *)
(*             and their write.                                            *)
(* SpecUow     one mutation call run statement by statement in its         *)
(*             session, with GetByID by another client in between.         *)
(* SpecSessao  requests with the session get_db gives each of them.        *)
(***************************************************************************)
EXTENDS Integers, Sequences, FiniteSets, TLC

\* ---------------------------------------------------------------- bounds
MaxCriacoes == 2    \* successful creations in one run
MaxPedidos == 1     \* orders the environment inserts

\* ------------------------------------------------- schema constants
NomeMinLength == 3
NomeMaxLength == 100
IdadeMin == 0
IdadeMax == 150

NULL == {}
Some(v) == {v}
Val(o) == CHOOSE v \in o : TRUE

\* ------------------------------------------------- request value domains
CPFs == {"11111111111", "22222222222"}
EmailsValidos == {"ana@x.com", "bia@x.com"}
EmailsQuaisquer == EmailsValidos \cup {"sem-arroba"}
CNPJs == {"12345678000199"}
NomeCriacao == "Ana Lima"
NomeCurto == "ab"
IdadesCriacao == {30}
IdadesFora == {200}
Telefone == "11999990000"

\* Identifiers a request may name: those the store can have handed out.
IDs == 1..MaxCriacoes

\* Requests served at the same time, each with its own session.
Workers == {1, 2}

CamposUpdate == {"nome", "email", "idade", "telefone", "endereco"}

VARIABLES
    clientes,     \* table clientes: a set of rows
    pedidos,      \* table pedidos: a set of rows [id, cliente_id]
    relogio,      \* datetime.utcnow, as a counter
    sequencia,    \* the last value the store's identifier sequence handed out
    resposta,     \* the last call and its outcome
    criados,      \* history: Create calls that succeeded
    deletados,    \* history: Delete calls that succeeded
    reqs,         \* concurrent requests: position, payload, outcome
    uow,          \* a mutation call run statement by statement in its session
    sessoes       \* per request: the sessions SessaoLOCAL() made for it, still open

vars == <<clientes, pedidos, relogio, sequencia, resposta, criados, deletados, reqs,
          uow, sessoes>>

\* ------------------------------------------------- boundary schemas
\* EmailStr: the strings the validator accepts.
EmailStr(e) == e \in EmailsValidos

\* ClienteBase / ClienteCreate: the payloads the boundary lets through.
ClienteCreate ==
    { [nome |-> Some(NomeCriacao), email |-> Some(e), idade |-> i, cpf |-> Some(c),
       cnpj |-> j, cep |-> NULL, endereco |-> NULL, telefone |-> t] :
        e \in EmailsValidos, c \in CPFs, j \in {NULL} \cup {Some(x) : x \in CNPJs},
        i \in {Some(x) : x \in IdadesCriacao}, t \in {Some(Telefone)} }

\* One ClienteUpdate payload: the five optional fields (default None) and
\* model_fields_set, the fields the request body named.
MkUpdate(fs, n, e, i, t, d) ==
    [fields_set |-> fs,
     nome |-> IF "nome" \in fs THEN n ELSE NULL,
     email |-> IF "email" \in fs THEN e ELSE NULL,
     idade |-> IF "idade" \in fs THEN i ELSE NULL,
     telefone |-> IF "telefone" \in fs THEN t ELSE NULL,
     endereco |-> IF "endereco" \in fs THEN d ELSE NULL]

\* The payloads drawn for PUT: which fields the body names, and their values.
ClienteUpdate ==
    { MkUpdate(fs, n, e, i, NULL, NULL) :
        fs \in {{}, {"email"}, {"nome", "email"}, {"nome", "idade", "telefone"}},
        n \in {NULL, Some(NomeCurto)},
        i \in {Some(x) : x \in IdadesFora},
        e \in {NULL} \cup {Some(x) : x \in EmailsValidos} }

\* ------------------------------------------------- the store (models/modelo.py)
\* Variant: column cpf declared without unique=True.
RestricoesClientes_CpfLivre(db) ==
    /\ \A c \in db : c.nome # NULL /\ c.email # NULL /\ c.cpf # NULL
    /\ \A c, d \in db :
        c # d => /\ c.id # d.id
                 /\ c.email # d.email
                 /\ (c.cnpj # NULL => c.cnpj # d.cnpj)

\* Constraints of table clientes: primary key, NOT NULL and UNIQUE columns.
RestricoesClientes(db) ==
    /\ \A c \in db : c.nome # NULL /\ c.email # NULL /\ c.cpf # NULL
    /\ \A c, d \in db :
        c # d => /\ c.id # d.id
                 /\ c.email # d.email
                 /\ c.cpf # d.cpf
                 /\ (c.cnpj # NULL => c.cnpj # d.cnpj)

\* Cliente.pedidos: the orders whose cliente_id is the customer's id.
PedidosDe(ps, id) == {p \in ps : p.cliente_id = id}

\* ------------------------------------------------- responses
SemCorpo == {}
Resultado(db, status, erro, corpo) ==
    [db |-> db, status |-> status, erro |-> erro, corpo |-> corpo]

\* ------------------------------------------------- ClienteService
\* Variant: the tax-ID check never rejects.
ValidarCpfUnico_SemCheque(db, cpf) == TRUE

\* _validar_cpf_unico: TRUE when the check passes (no row with that cpf).
ValidarCpfUnico(db, cpf) == ~ \E c \in db : c.cpf = cpf

\* Variant: the email check never rejects.
ValidarEmailUnico_SemCheque(db, email) == TRUE

\* _validar_email_unico: TRUE when the check passes.
ValidarEmailUnico(db, email) == ~ \E c \in db : c.email = email

\* db.commit(): the store takes the new table contents or raises IntegrityError.
Commit(db, novo, status, corpo) ==
    IF RestricoesClientes(novo)
      THEN Resultado(novo, status, "", corpo)
      ELSE Resultado(db, 500, "IntegrityError", SemCorpo)

\* Cliente(**cliente_data.model_dump()) with the id and the default timestamp.
NovoCliente(dados, id, agora) ==
    [id |-> id, nome |-> dados.nome, email |-> dados.email, idade |-> dados.idade,
     cpf |-> dados.cpf, cnpj |-> dados.cnpj, cep |-> dados.cep,
     endereco |-> dados.endereco, telefone |-> dados.telefone,
     data_criacao |-> agora]

CriarCliente(db, dados, id, agora) ==
    IF ~ ValidarCpfUnico(db, dados.cpf)
      THEN Resultado(db, 400, "DuplicateTaxID", SemCorpo)
    ELSE IF ~ ValidarEmailUnico(db, dados.email)
      THEN Resultado(db, 400, "DuplicateEmail", SemCorpo)
    ELSE LET novo == NovoCliente(dados, id, agora)
         IN  Commit(db, db \cup {novo}, 201, {novo})

ObterClientePorId(db, id) ==
    LET achados == {c \in db : c.id = id}
    IN  IF achados = {}
          THEN Resultado(db, 404, "NotFound", SemCorpo)
          ELSE Resultado(db, 200, "", achados)

\* Variant: the `if not cliente` test is missing.
ObterClientePorCpf_SemTeste(db, cpf) ==
    Resultado(db, 200, "", {c \in db : c.cpf = Some(cpf)})

ObterClientePorCpf(db, cpf) ==
    LET achados == {c \in db : c.cpf = Some(cpf)}
    IN  IF achados = {}
          THEN Resultado(db, 404, "NotFound", SemCorpo)
          ELSE Resultado(db, 200, "", achados)

\* Variant: model_dump() without exclude_unset dumps every field.
ModelDump_Tudo(dados) == CamposUpdate

\* model_dump(exclude_unset=True): the keys of the dumped dictionary.
ModelDumpExcludeUnset(dados) == dados.fields_set

\* for key, value in update_data.items(): setattr(cliente, key, value)
SetAttrs(cliente, dados, chaves) ==
    [cliente EXCEPT
        !.nome = IF "nome" \in chaves THEN dados.nome ELSE @,
        !.email = IF "email" \in chaves THEN dados.email ELSE @,
        !.idade = IF "idade" \in chaves THEN dados.idade ELSE @,
        !.telefone = IF "telefone" \in chaves THEN dados.telefone ELSE @,
        !.endereco = IF "endereco" \in chaves THEN dados.endereco ELSE @]

\* `if cliente_data.email and cliente_data.email != cliente.email`
DeveValidarEmail(dados, cliente) ==
    dados.email # NULL /\ dados.email # cliente.email

AtualizarCliente(db, id, dados) ==
    LET r == ObterClientePorId(db, id)
    IN  IF r.status = 404 THEN r
        ELSE LET cliente == Val(r.corpo)
             IN  IF DeveValidarEmail(dados, cliente) /\ ~ ValidarEmailUnico(db, dados.email)
                   THEN Resultado(db, 400, "DuplicateEmail", SemCorpo)
                 ELSE LET novo == SetAttrs(cliente, dados, ModelDumpExcludeUnset(dados))
                      IN  Commit(db, (db \ {cliente}) \cup {novo}, 200, {novo})

\* `if novo_email != cliente.email`
DeveValidarNovoEmail(novo_email, cliente) == Some(novo_email) # cliente.email

AtualizarEmail(db, id, novo_email) ==
    LET r == ObterClientePorId(db, id)
    IN  IF r.status = 404 THEN r
        ELSE LET cliente == Val(r.corpo)
             IN  IF DeveValidarNovoEmail(novo_email, cliente)
                      /\ ~ ValidarEmailUnico(db, Some(novo_email))
                   THEN Resultado(db, 400, "DuplicateEmail", SemCorpo)
                 ELSE LET novo == [cliente EXCEPT !.email = Some(novo_email)]
                      IN  Commit(db, (db \ {cliente}) \cup {novo}, 200, {novo})

\* Variant: the orders test never blocks.
TemPedidos_Nunca(ps, id) == FALSE

\* `if len(cliente.pedidos) > 0`
TemPedidos(ps, id) == Cardinality(PedidosDe(ps, id)) > 0

\* Variant: db.delete without the commit, undone when the session closes.
Remover_SemCommit(db, linhas) == db

\* db.delete(cliente); db.commit()
Remover(db, linhas) == db \ linhas

DeletarCliente(db, ps, id) ==
    LET r == ObterClientePorId(db, id)
    IN  IF r.status = 404 THEN r
        ELSE IF TemPedidos(ps, id)
          THEN Resultado(db, 400, "HasDependentOrders", SemCorpo)
        ELSE Resultado(Remover(db, r.corpo), 204, "", SemCorpo)

ContarClientes(db) == Cardinality(db)

\* ------------------------------------------------- calls, one per request
Chamada(op, id, dados, r) ==
    [op |-> op, id |-> id, dados |-> dados,
     status |-> r.status, erro |-> r.erro, corpo |-> r.corpo]

SemDados == {}

Max(S) == IF S = {} THEN 0 ELSE CHOOSE m \in S : \A n \in S : n <= m

\* The identifier the store assigns to an inserted row (integer primary key):
\* the largest stored id plus one on a rowid table, the next value of the
\* sequence otherwise.  Which one depends on the engine behind the session.
NovosIds(db, seq) == {Max({c.id : c \in db}) + 1, seq + 1}

Req(pc, dados, status, erro) ==
    [pc |-> pc, dados |-> dados, status |-> status, erro |-> erro]

\* The stepped call: where it stands, its arguments, the row as loaded (orig),
\* the session's copy of it (obj), the keys still to set, the table as it was
\* when the call began (antes), and its outcome once it has ended.
Uow(pc, op, id, dados, orig, obj, restantes, antes, status, erro) ==
    [pc |-> pc, op |-> op, id |-> id, dados |-> dados, orig |-> orig, obj |-> obj,
     restantes |-> restantes, antes |-> antes, status |-> status, erro |-> erro]

UowFim(op, status, erro) == Uow("ocioso", op, 0, {}, {}, {}, {}, {}, status, erro)

Init ==
    /\ clientes = {}
    /\ pedidos = {}
    /\ relogio = 0
    /\ sequencia = 0
    /\ resposta = Chamada("inicio", 0, SemDados, Resultado({}, 0, "", SemCorpo))
    /\ criados = 0
    /\ deletados = 0
    /\ reqs = [w \in Workers |-> Req("ocioso", SemDados, 0, "")]
    /\ uow = UowFim("inicio", 0, "")
    /\ sessoes = [w \in Workers |-> 0]

\* POST /clientes
Criar(dados) ==
    /\ criados < MaxCriacoes
    /\ \E id \in NovosIds(clientes, sequencia) :
         LET r == CriarCliente(clientes, dados, id, relogio)
         IN  /\ clientes' = r.db
             /\ resposta' = Chamada("criar", 0, {dados}, r)
             /\ criados' = IF r.status = 201 THEN criados + 1 ELSE criados
             /\ relogio' = IF r.status = 201 THEN relogio + 1 ELSE relogio
             /\ sequencia' = IF r.status = 201 THEN sequencia + 1 ELSE sequencia
    /\ UNCHANGED <<pedidos, deletados, reqs, uow, sessoes>>

\* GET /clientes/{id}
ObterPorId(id) ==
    /\ resposta' = Chamada("obter", id, SemDados, ObterClientePorId(clientes, id))
    /\ UNCHANGED <<clientes, pedidos, relogio, sequencia, criados, deletados, reqs, uow, sessoes>>

\* GET /clientes/cpf/{cpf}
ObterPorCpf(cpf) ==
    /\ resposta' = Chamada("obter_cpf", 0, {cpf}, ObterClientePorCpf(clientes, cpf))
    /\ UNCHANGED <<clientes, pedidos, relogio, sequencia, criados, deletados, reqs, uow, sessoes>>

\* PUT /clientes/{id}
Atualizar(id, dados) ==
    LET r == AtualizarCliente(clientes, id, dados)
    IN  /\ clientes' = r.db
        /\ resposta' = Chamada("atualizar", id, {dados}, r)
        /\ UNCHANGED <<pedidos, relogio, sequencia, criados, deletados, reqs, uow, sessoes>>

\* PATCH /clientes/{id}/email
AtualizarSoEmail(id, email) ==
    LET r == AtualizarEmail(clientes, id, email)
    IN  /\ clientes' = r.db
        /\ resposta' = Chamada("atualizar_email", id, {email}, r)
        /\ UNCHANGED <<pedidos, relogio, sequencia, criados, deletados, reqs, uow, sessoes>>

\* DELETE /clientes/{id}
Deletar(id) ==
    LET r == DeletarCliente(clientes, pedidos, id)
    IN  /\ clientes' = r.db
        /\ resposta' = Chamada("deletar", id, SemDados, r)
        /\ deletados' = IF r.status = 204 THEN deletados + 1 ELSE deletados
        /\ UNCHANGED <<pedidos, relogio, sequencia, criados, reqs, uow, sessoes>>

\* GET /clientes/estatisticas/total
Contar ==
    /\ resposta' = Chamada("contar", 0, SemDados,
                           Resultado(clientes, 200, "", {ContarClientes(clientes)}))
    /\ UNCHANGED <<clientes, pedidos, relogio, sequencia, criados, deletados, reqs, uow, sessoes>>

\* A row of table pedidos is inserted for a stored customer (cliente_id is a
\* NOT NULL foreign key to clientes.id).
InserirPedido(pid, cid) ==
    /\ Cardinality(pedidos) < MaxPedidos
    /\ pid \notin {p.id : p \in pedidos}
    /\ cid \in {c.id : c \in clientes}
    /\ pedidos' = pedidos \cup {[id |-> pid, cliente_id |-> cid]}
    /\ resposta' = Chamada("pedido", cid, SemDados, Resultado(clientes, 0, "", SemCorpo))
    /\ UNCHANGED <<clientes, relogio, sequencia, criados, deletados, reqs, uow, sessoes>>

Next ==
    \/ \E dados \in ClienteCreate : Criar(dados)
    \/ \E id \in IDs : ObterPorId(id)
    \/ \E cpf \in CPFs : ObterPorCpf(cpf)
    \/ \E id \in IDs, dados \in ClienteUpdate : Atualizar(id, dados)
    \/ \E id \in IDs, email \in EmailsQuaisquer : AtualizarSoEmail(id, email)
    \/ \E id \in IDs : Deletar(id)
    \/ Contar

Spec == Init /\ [][Next]_vars

\* The customer operations that read Cliente.pedidos, with orders in the store.
NextPedidos ==
    \/ \E dados \in ClienteCreate : Criar(dados)
    \/ \E id \in IDs : ObterPorId(id)
    \/ \E id \in IDs : Deletar(id)
    \/ \E pid \in 1..MaxPedidos, cid \in IDs : InserirPedido(pid, cid)

SpecPedidos == Init /\ [][NextPedidos]_vars
\* ------------------------------------------------- concurrent POST /clientes
\* criar_cliente of request w, first statement: self._validar_cpf_unico(cpf).
ConcValidarCpf(w, dados) ==
    /\ reqs[w].pc = "ocioso"
    /\ criados < MaxCriacoes
    /\ reqs' = [reqs EXCEPT ![w] =
                 IF ValidarCpfUnico(clientes, dados.cpf)
                   THEN Req("cpf_ok", {dados}, 0, "")
                   ELSE Req("ocioso", {dados}, 400, "DuplicateTaxID")]
    /\ UNCHANGED <<clientes, pedidos, relogio, sequencia, resposta, criados, deletados, uow, sessoes>>

\* Second statement: self._validar_email_unico(email).
ConcValidarEmail(w) ==
    /\ reqs[w].pc = "cpf_ok"
    /\ reqs' = [reqs EXCEPT ![w] =
                 IF ValidarEmailUnico(clientes, Val(reqs[w].dados).email)
                   THEN Req("email_ok", reqs[w].dados, 0, "")
                   ELSE Req("ocioso", reqs[w].dados, 400, "DuplicateEmail")]
    /\ UNCHANGED <<clientes, pedidos, relogio, sequencia, resposta, criados, deletados, uow, sessoes>>

\* The write: db.add(novo_cliente); db.commit(); db.refresh(novo_cliente).
ConcCommit(w) ==
    /\ reqs[w].pc = "email_ok"
    /\ criados < MaxCriacoes
    /\ \E id \in NovosIds(clientes, sequencia) :
         LET novo == NovoCliente(Val(reqs[w].dados), id, relogio)
             r == Commit(clientes, clientes \cup {novo}, 201, {novo})
         IN  /\ clientes' = r.db
             /\ reqs' = [reqs EXCEPT ![w] = Req("ocioso", reqs[w].dados, r.status, r.erro)]
             /\ criados' = IF r.status = 201 THEN criados + 1 ELSE criados
             /\ relogio' = IF r.status = 201 THEN relogio + 1 ELSE relogio
             /\ sequencia' = IF r.status = 201 THEN sequencia + 1 ELSE sequencia
    /\ UNCHANGED <<pedidos, resposta, deletados, uow, sessoes>>

NextConc ==
    \/ \E w \in Workers, dados \in ClienteCreate : ConcValidarCpf(w, dados)
    \/ \E w \in Workers : ConcValidarEmail(w)
    \/ \E w \in Workers : ConcCommit(w)

SpecConc == Init /\ [][NextConc]_vars

\* ------------------------------------------------- one call, statement by statement
\* The PUT payloads drawn here: two attributes to set, nome and email.
UpdatesVarios ==
    { MkUpdate({"nome", "email"}, n, Some(e), NULL, NULL, NULL) :
        n \in {NULL, Some(NomeCriacao)}, e \in EmailsValidos }

\* The mutation calls a client issues: operation, id, argument.
ChamadasUow ==
    {<<"criar", 0, {d}>> : d \in ClienteCreate}
      \cup {<<"atualizar", id, {d}>> : id \in IDs, d \in UpdatesVarios}
      \cup {<<"atualizar_email", id, {e}>> : id \in IDs, e \in EmailsValidos}
      \cup {<<"deletar", id, {}>> : id \in IDs}

\* The fields of ClienteUpdate in declaration order, the order of the items of
\* the dumped dictionary.
CamposOrdem == <<"nome", "email", "idade", "telefone", "endereco">>

ProximaChave(restantes) ==
    CamposOrdem[CHOOSE i \in 1..Len(CamposOrdem) :
                  /\ CamposOrdem[i] \in restantes
                  /\ \A j \in 1..(i - 1) : CamposOrdem[j] \notin restantes]

\* Variant: a session that writes each change through to the table at once.
NaSessao_Direto(db, orig, obj) == (db \ orig) \cup obj

\* setattr(cliente, key, value), db.add(novo), db.delete(cliente): the change is
\* made to the session's object; the table keeps its rows until db.commit().
NaSessao(db, orig, obj) == db

\* The call arrives and runs its first statement: _validar_cpf_unico for a
\* Create, obter_cliente_por_id for the others.
UowChamar(op, id, dados) ==
    /\ uow.pc = "ocioso"
    /\ op = "criar" => criados < MaxCriacoes
    /\ uow' = IF op = "criar"
                THEN IF ValidarCpfUnico(clientes, Val(dados).cpf)
                       THEN Uow("validar", op, id, dados, {}, {}, {}, clientes, 0, "")
                       ELSE UowFim(op, 400, "DuplicateTaxID")
                ELSE LET r == ObterClientePorId(clientes, id)
                     IN  IF r.status = 404
                           THEN UowFim(op, 404, "NotFound")
                           ELSE Uow("validar", op, id, dados, r.corpo, r.corpo, {},
                                    clientes, 0, "")
    /\ UNCHANGED <<clientes, pedidos, relogio, sequencia, resposta, criados, deletados,
                   reqs, sessoes>>

\* Whether the second pre-check of the call in progress raises, and with what.
UowRejeicao(u, db, ps) ==
    IF u.op = "criar"
      THEN IF ValidarEmailUnico(db, Val(u.dados).email) THEN "" ELSE "DuplicateEmail"
    ELSE IF u.op = "atualizar"
      THEN IF DeveValidarEmail(Val(u.dados), Val(u.orig))
                /\ ~ ValidarEmailUnico(db, Val(u.dados).email)
             THEN "DuplicateEmail" ELSE ""
    ELSE IF u.op = "atualizar_email"
      THEN IF DeveValidarNovoEmail(Val(u.dados), Val(u.orig))
                /\ ~ ValidarEmailUnico(db, Some(Val(u.dados)))
             THEN "DuplicateEmail" ELSE ""
    ELSE IF TemPedidos(ps, u.id) THEN "HasDependentOrders" ELSE ""

\* The attributes the call is going to set.
UowChaves(u) ==
    IF u.op = "atualizar" THEN ModelDumpExcludeUnset(Val(u.dados))
    ELSE IF u.op = "atualizar_email" THEN {"email"}
    ELSE {}

\* The second pre-check: the email check, or the orders test of a Delete.
UowValidar ==
    /\ uow.pc = "validar"
    /\ LET erro == UowRejeicao(uow, clientes, pedidos)
       IN  uow' = IF erro # ""
                    THEN UowFim(uow.op, 400, erro)
                    ELSE [uow EXCEPT !.pc = "alterar", !.restantes = UowChaves(uow)]
    /\ UNCHANGED <<clientes, pedidos, relogio, sequencia, resposta, criados, deletados,
                   reqs, sessoes>>

\* The session's copy of the row after the next statement of the call.
UowObjeto(u) ==
    IF u.op = "atualizar"
      THEN {SetAttrs(Val(u.obj), Val(u.dados), {ProximaChave(u.restantes)})}
    ELSE IF u.op = "atualizar_email"
      THEN {[Val(u.obj) EXCEPT !.email = Some(Val(u.dados))]}
    ELSE IF u.op = "deletar" THEN {}
    ELSE u.obj

\* One statement that changes the session: one setattr of the loop,
\* cliente.email = novo_email, db.add(novo_cliente) or db.delete(cliente).
UowAlterar ==
    /\ uow.pc = "alterar"
    /\ LET obj == UowObjeto(uow)
           restantes == IF uow.restantes = {} THEN {}
                        ELSE uow.restantes \ {ProximaChave(uow.restantes)}
       IN  /\ uow' = [uow EXCEPT !.obj = obj, !.restantes = restantes,
                                 !.pc = IF restantes = {} THEN "commit" ELSE "alterar"]
           /\ clientes' = NaSessao(clientes, uow.orig, obj)
    /\ UNCHANGED <<pedidos, relogio, sequencia, resposta, criados, deletados, reqs, sessoes>>

\* db.commit(): the pending change goes to the table whole, or IntegrityError is
\* raised and the table keeps its rows.
UowCommit ==
    /\ uow.pc = "commit"
    /\ \E id \in NovosIds(clientes, sequencia) :
         LET novo == NovoCliente(Val(uow.dados), id, relogio)
             r == IF uow.op = "criar"
                    THEN Commit(clientes, clientes \cup {novo}, 201, {novo})
                  ELSE IF uow.op = "deletar"
                    THEN Resultado(Remover(clientes, uow.orig), 204, "", SemCorpo)
                  ELSE Commit(clientes, (clientes \ uow.orig) \cup uow.obj, 200, uow.obj)
         IN  /\ clientes' = r.db
             /\ uow' = UowFim(uow.op, r.status, r.erro)
             /\ criados' = IF r.status = 201 THEN criados + 1 ELSE criados
             /\ relogio' = IF r.status = 201 THEN relogio + 1 ELSE relogio
             /\ sequencia' = IF r.status = 201 THEN sequencia + 1 ELSE sequencia
             /\ deletados' = IF r.status = 204 THEN deletados + 1 ELSE deletados
    /\ UNCHANGED <<pedidos, resposta, reqs, sessoes>>

\* A mutation call in steps, with GetByID issued by another client in between.
NextUow ==
    \/ \E c \in ChamadasUow : UowChamar(c[1], c[2], c[3])
    \/ UowValidar
    \/ UowAlterar
    \/ UowCommit
    \/ \E id \in IDs : ObterPorId(id)

SpecUow == Init /\ [][NextUow]_vars

\* ------------------------------------------------- requests and their sessions
\* The calls a handler makes on the service, by operation and argument.
ChamadasSessao ==
    {<<"criar", 0, {d}>> : d \in {x \in ClienteCreate : x.cnpj = NULL}}
      \cup {<<"obter", id, {}>> : id \in IDs}
      \cup {<<"deletar", id, {}>> : id \in IDs}

\* The service call of a handler, run on table db.
Servico(c, db, ps, id, agora) ==
    IF c[1] = "criar" THEN CriarCliente(db, Val(c[3]), id, agora)
    ELSE IF c[1] = "obter" THEN ObterClientePorId(db, c[2])
    ELSE DeletarCliente(db, ps, c[2])

\* Variant: get_db without try/finally, db.close() after the yield only.
GetDbSaida_SemFinally(abertas, saida) ==
    IF saida = "levantou" THEN abertas ELSE abertas - 1

\* get_db after the yield: `finally: db.close()` runs however the request left.
GetDbSaida(abertas, saida) == abertas - 1

\* Depends(get_db) of a request that arrives: db = SessaoLOCAL(); yield db.
GetDb(w) ==
    /\ reqs[w].pc = "ocioso"
    /\ sessoes' = [sessoes EXCEPT ![w] = @ + 1]
    /\ reqs' = [reqs EXCEPT ![w] = Req("handler", SemDados, 0, "")]
    /\ UNCHANGED <<clientes, pedidos, relogio, sequencia, resposta, criados, deletados, uow>>

\* The endpoint function: ClienteService(db) and one call on it, which returns
\* a result or raises.
Handler(w, c) ==
    /\ reqs[w].pc = "handler"
    /\ c[1] = "criar" => criados < MaxCriacoes
    /\ \E id \in NovosIds(clientes, sequencia) :
         LET r == Servico(c, clientes, pedidos, id, relogio)
         IN  /\ clientes' = r.db
             /\ reqs' = [reqs EXCEPT ![w] =
                          Req(IF r.status \in {200, 201, 204} THEN "retornou" ELSE "levantou",
                              SemDados, r.status, r.erro)]
             /\ criados' = IF r.status = 201 THEN criados + 1 ELSE criados
             /\ relogio' = IF r.status = 201 THEN relogio + 1 ELSE relogio
             /\ sequencia' = IF r.status = 201 THEN sequencia + 1 ELSE sequencia
             /\ deletados' = IF r.status = 204 THEN deletados + 1 ELSE deletados
    /\ UNCHANGED <<pedidos, resposta, uow, sessoes>>

\* The request leaves: the generator get_db is resumed past its yield.
Fechar(w) ==
    /\ reqs[w].pc \in {"retornou", "levantou"}
    /\ sessoes' = [sessoes EXCEPT ![w] = GetDbSaida(@, reqs[w].pc)]
    /\ reqs' = [reqs EXCEPT ![w] = Req("ocioso", SemDados, reqs[w].status, reqs[w].erro)]
    /\ UNCHANGED <<clientes, pedidos, relogio, sequencia, resposta, criados, deletados, uow>>

NextSessao ==
    \/ \E w \in Workers : GetDb(w)
    \/ \E w \in Workers, c \in ChamadasSessao : Handler(w, c)
    \/ \E w \in Workers : Fechar(w)

\* A request that holds a session runs its handler to the end, and the
\* framework then resumes the dependency; requests need not keep arriving.
SpecSessao ==
    /\ Init
    /\ [][NextSessao]_vars
    /\ \A w \in Workers :
         /\ WF_vars(\E c \in ChamadasSessao : Handler(w, c))
         /\ WF_vars(Fechar(w))

\* ------------------------------------------------- properties
Ids(db) == {c.id : c \in db}
Pedido(r) == Val(r.dados)
ClienteDe(db, id) == CHOOSE c \in db : c.id = id

\* C1: a Create whose tax ID (CPF) a stored customer already has fails with
\* DuplicateTaxID (HTTP 400) whatever its other fields are, and the stored
\* customers are the same after the call as before it.
C1_CpfDuplicado ==
    [][ (resposta'.op = "criar"
           /\ \E c \in clientes : c.cpf = Pedido(resposta').cpf)
        => /\ resposta'.status = 400
           /\ resposta'.erro = "DuplicateTaxID"
           /\ resposta'.corpo = SemCorpo
           /\ clientes' = clientes ]_vars

\* C1 witness: a Create was rejected for its tax ID although no stored
\* customer has its email or its CNPJ.
C1_Witness ==
    /\ resposta.op = "criar"
    /\ resposta.erro = "DuplicateTaxID"
    /\ \E c \in clientes : c.cpf = Pedido(resposta).cpf
    /\ \A c \in clientes : c.email # Pedido(resposta).email
                            /\ c.cnpj # Pedido(resposta).cnpj

EmailUnico == \A c, d \in clientes : c # d => c.email # d.email

\* C2 as stated: no two stored customers share an email, and every Create
\* whose email a stored customer already has fails with DuplicateEmail.
C2_Original ==
    [][ /\ EmailUnico'
        /\ (resposta'.op = "criar"
              /\ \E c \in clientes : c.email = Pedido(resposta').email)
           => resposta'.erro = "DuplicateEmail" ]_vars

\* C2 amended: no two stored customers share an email; a Create whose email
\* a stored customer already has fails with HTTP 400 and stores nothing, with
\* DuplicateEmail when its tax ID is not stored and with DuplicateTaxID when
\* its tax ID is stored too.
C2_EmailUnico ==
    /\ []EmailUnico
    /\ [][ (resposta'.op = "criar"
              /\ \E c \in clientes : c.email = Pedido(resposta').email)
           => /\ resposta'.status = 400
              /\ clientes' = clientes
              /\ resposta'.erro =
                   IF \E c \in clientes : c.cpf = Pedido(resposta').cpf
                     THEN "DuplicateTaxID" ELSE "DuplicateEmail" ]_vars

\* C2 witness: a Create with a tax ID no stored customer has was rejected for
\* its email, which a stored customer has.
C2_Witness ==
    /\ resposta.op = "criar"
    /\ resposta.erro = "DuplicateEmail"
    /\ \E c \in clientes : c.email = Pedido(resposta).email
    /\ \A c \in clientes : c.cpf # Pedido(resposta).cpf

\* C3: every Create whose tax ID and email are not in the store succeeds; the
\* returned record has an identifier no stored customer had before the call
\* and a creation timestamp, and GetByID with that identifier right after
\* returns a record equal to it.
C3_Original ==
    [][ (resposta'.op = "criar"
           /\ \A c \in clientes : c.cpf # Pedido(resposta').cpf
                                   /\ c.email # Pedido(resposta').email)
        => /\ resposta'.status = 201
           /\ resposta'.corpo # SemCorpo
           /\ Val(resposta'.corpo).id \notin Ids(clientes)
           /\ Val(resposta'.corpo).data_criacao = relogio
           /\ ObterClientePorId(clientes', Val(resposta'.corpo).id).corpo
                = resposta'.corpo ]_vars
\* The value of a column of a row, or of a field of a PUT payload.
Campo(r, k) ==
    CASE k = "nome" -> r.nome
      [] k = "email" -> r.email
      [] k = "idade" -> r.idade
      [] k = "telefone" -> r.telefone
      [] k = "endereco" -> r.endereco

\* C4: a successful Update(id, partialInput) overwrites exactly the fields
\* present in partialInput: each present field takes the supplied value, each
\* absent field and the identifier, tax ID, CNPJ, postal code and creation
\* timestamp keep their value, and every other stored customer is unchanged.
C4_SoCamposFornecidos ==
    [][ (resposta'.op = "atualizar" /\ resposta'.status = 200)
        => LET id == resposta'.id
               dados == Pedido(resposta')
               antes == ClienteDe(clientes, id)
               depois == ClienteDe(clientes', id)
           IN  /\ id \in Ids(clientes) /\ id \in Ids(clientes')
               /\ \A k \in CamposUpdate :
                    Campo(depois, k) = IF k \in dados.fields_set
                                         THEN Campo(dados, k)
                                         ELSE Campo(antes, k)
               /\ depois.id = antes.id
               /\ depois.cpf = antes.cpf
               /\ depois.cnpj = antes.cnpj
               /\ depois.cep = antes.cep
               /\ depois.data_criacao = antes.data_criacao
               /\ clientes' \ {depois} = clientes \ {antes}
               /\ resposta'.corpo = {depois} ]_vars

\* C4 witness: two customers are stored and an Update naming nome, idade and
\* telefone (telefone as null) succeeded on one of them, whose email is set.
C4_Witness ==
    /\ resposta.op = "atualizar"
    /\ resposta.status = 200
    /\ Pedido(resposta).fields_set = {"nome", "idade", "telefone"}
    /\ Cardinality(clientes) = 2
    /\ LET c == ClienteDe(clientes, resposta.id)
       IN  c.nome = Some(NomeCurto) /\ c.telefone = NULL /\ c.email # NULL

\* The email a PUT or PATCH call supplies.
EmailFornecido(r) ==
    IF r.op = "atualizar" THEN Pedido(r).email ELSE Some(Pedido(r))

\* C5: Update and UpdateEmail on an existing customer fail with DuplicateEmail
\* and leave the store unchanged when the supplied email is the email of a
\* different stored customer, and succeed when the supplied email is the
\* customer's own current email.
C5_Original ==
    [][ (resposta'.op \in {"atualizar", "atualizar_email"}
           /\ resposta'.id \in Ids(clientes))
        => LET email == EmailFornecido(resposta')
               proprio == ClienteDe(clientes, resposta'.id).email
           IN  /\ (\E c \in clientes : c.id # resposta'.id /\ c.email = email)
                    => /\ resposta'.status = 400
                       /\ resposta'.erro = "DuplicateEmail"
                       /\ clientes' = clientes
               /\ (email = proprio) => resposta'.status = 200 ]_vars
\* Every stored order references a stored customer.
IntegridadeReferencial == \A p \in pedidos : p.cliente_id \in Ids(clientes)

\* What Delete(id) does on an existing customer: without orders it removes
\* the customer; with orders it fails with HasDependentOrders (HTTP 400) and
\* the customer and the orders stay stored.
EfeitoDeletar ==
    (resposta'.op = "deletar" /\ resposta'.id \in Ids(clientes))
    => IF PedidosDe(pedidos, resposta'.id) = {}
         THEN /\ resposta'.status = 204
              /\ resposta'.id \notin Ids(clientes')
              /\ ObterClientePorId(clientes', resposta'.id).erro = "NotFound"
         ELSE /\ resposta'.status = 400
              /\ resposta'.erro = "HasDependentOrders"
              /\ clientes' = clientes
              /\ pedidos' = pedidos

\* C6 as stated: Delete removes a customer without orders and is refused on
\* one with orders, each stored order references a stored customer, and once
\* Delete(id) has succeeded GetByID(id) fails with NotFound after every later
\* call (here: after the call that follows the Delete).
C6_Original ==
    /\ []IntegridadeReferencial
    /\ [][EfeitoDeletar]_vars
    /\ [][ (resposta.op = "deletar" /\ resposta.status = 204)
           => ObterClientePorId(clientes', resposta.id).erro = "NotFound" ]_vars

\* C6 amended: as stated, except that GetByID(id) fails with NotFound after a
\* successful Delete(id) only until a later successful Create is assigned the
\* identifier id again: an absent identifier becomes present by no other call.
C6_Deletar ==
    /\ []IntegridadeReferencial
    /\ [][EfeitoDeletar]_vars
    /\ [][ \A id \in IDs :
             (id \notin Ids(clientes) /\ id \in Ids(clientes'))
             => /\ resposta'.op = "criar"
                /\ resposta'.status = 201
                /\ Val(resposta'.corpo).id = id ]_vars

\* C6 witness: after an earlier Delete succeeded, a Delete was refused on a
\* stored customer that has an order.
C6_Witness ==
    /\ resposta.op = "deletar"
    /\ resposta.erro = "HasDependentOrders"
    /\ deletados > 0
    /\ resposta.id \in Ids(clientes)
    /\ PedidosDe(pedidos, resposta.id) # {}

\* C7: Count() is the number of Create calls that succeeded minus the number
\* of Delete calls that succeeded; a failed call, an update or a read does not
\* change it.
C7_Contagem ==
    /\ [](/\ ContarClientes(clientes) = criados - deletados
          /\ resposta.op = "contar" => resposta.corpo = {criados - deletados})
    /\ [][ (~ (resposta'.op = "criar" /\ resposta'.status = 201)
            /\ ~ (resposta'.op = "deletar" /\ resposta'.status = 204))
           => ContarClientes(clientes') = ContarClientes(clientes) ]_vars

\* C7 witness: Count answered 1 after two creations and one deletion.
C7_Witness ==
    /\ resposta.op = "contar"
    /\ resposta.corpo = {1}
    /\ criados = 2
    /\ deletados = 1

\* C8: GetByID(id) and GetByTaxID(taxID) return the stored customer with that
\* key when there is one and fail with NotFound (HTTP 404) when there is none,
\* also after that customer was deleted; neither changes the store.
C8_Leituras ==
    [][ /\ resposta'.op = "obter"
          => /\ IF resposta'.id \in Ids(clientes)
                  THEN /\ resposta'.status = 200
                       /\ resposta'.corpo = {ClienteDe(clientes, resposta'.id)}
                  ELSE /\ resposta'.status = 404
                       /\ resposta'.erro = "NotFound"
                       /\ resposta'.corpo = SemCorpo
             /\ clientes' = clientes /\ pedidos' = pedidos
        /\ resposta'.op = "obter_cpf"
          => /\ IF \E c \in clientes : c.cpf = Some(Pedido(resposta'))
                  THEN /\ resposta'.status = 200
                       /\ resposta'.corpo # SemCorpo
                       /\ Val(resposta'.corpo) \in clientes
                       /\ Val(resposta'.corpo).cpf = Some(Pedido(resposta'))
                  ELSE /\ resposta'.status = 404
                       /\ resposta'.erro = "NotFound"
                       /\ resposta'.corpo = SemCorpo
             /\ clientes' = clientes /\ pedidos' = pedidos ]_vars

\* C8 witness: GetByTaxID failed with NotFound on an empty store after a
\* customer had been created and deleted.
C8_Witness ==
    /\ resposta.op = "obter_cpf"
    /\ resposta.status = 404
    /\ criados > 0
    /\ deletados = criados

\* The attribute constraints of ClienteBase on a stored row.
LinhaValida(c) ==
    /\ c.nome # NULL
    /\ Len(Val(c.nome)) >= NomeMinLength
    /\ Len(Val(c.nome)) <= NomeMaxLength
    /\ c.email # NULL
    /\ EmailStr(Val(c.email))
    /\ (c.idade = NULL \/ (Val(c.idade) >= IdadeMin /\ Val(c.idade) <= IdadeMax))

\* C9: in every state reachable through Create, PUT and PATCH, every stored
\* customer has a name of 3 to 100 characters, a valid email, and an age that
\* is absent or between 0 and 150.
C9_Original == \A c \in clientes : LinhaValida(c)

CpfUnico == \A c, d \in clientes : c # d => c.cpf # d.cpf

\* C10: when Create calls with the same tax ID interleave between their
\* uniqueness checks and their writes, the store rejects the write of a tax ID
\* that is already stored, so at most one of them adds a record and no two
\* stored customers ever have the same tax ID.
C10_StoreRejeita ==
    /\ []CpfUnico
    /\ [][ \A w \in Workers :
             (reqs[w].pc = "email_ok" /\ reqs'[w].pc = "ocioso"
                /\ \E c \in clientes : c.cpf = Val(reqs[w].dados).cpf)
             => /\ clientes' = clientes
                /\ reqs'[w].status = 500
                /\ reqs'[w].erro = "IntegrityError" ]_vars

\* C10 witness: two requests with the same tax ID and different emails both
\* passed their checks; the first write was stored and the second rejected.
C10_Witness ==
    /\ reqs[1].status = 201
    /\ reqs[2].erro = "IntegrityError"
    /\ Val(reqs[1].dados).cpf = Val(reqs[2].dados).cpf
    /\ Val(reqs[1].dados).email # Val(reqs[2].dados).email
    /\ Val(reqs[2].dados).cnpj = NULL
    /\ Cardinality(clientes) = 1
\* The failures the domain service raises itself, by a pre-check.
FalhasDeNegocio == {"NotFound", "DuplicateTaxID", "DuplicateEmail", "HasDependentOrders"}

\* C12: every failure of a customer operation is NotFound, DuplicateTaxID,
\* DuplicateEmail or HasDependentOrders, raised by a pre-check before any
\* write; called one at a time, no operation fails with a constraint
\* violation of the store.
C12_Original ==
    /\ resposta.erro \in FalhasDeNegocio \cup {""}
    /\ resposta.erro # "IntegrityError"

\* The statuses of a call that succeeded.
Sucessos == {200, 201, 204}

\* The table before the call the step belongs to: the snapshot taken when the
\* call began, or the table itself when the call is only beginning.
AntesDaChamada == IF uow.pc = "ocioso" THEN clientes ELSE uow.antes

\* The whole change of the call in progress, between table db and table db2.
MudancaInteira(u, db, db2) ==
    IF u.op = "criar"
      THEN \E c \in db2 \ db :
             /\ db2 = db \cup {c}
             /\ LET d == Val(u.dados)
                IN  /\ c.nome = d.nome /\ c.email = d.email /\ c.idade = d.idade
                    /\ c.cpf = d.cpf /\ c.cnpj = d.cnpj /\ c.cep = d.cep
                    /\ c.endereco = d.endereco /\ c.telefone = d.telefone
    ELSE IF u.op = "deletar"
      THEN db2 = db \ u.orig
    ELSE \E c \in db2 :
           /\ db2 \ {c} = db \ u.orig
           /\ c.id = u.id
           /\ \A k \in CamposUpdate :
                Campo(c, k) = IF u.op = "atualizar"
                                THEN IF k \in Val(u.dados).fields_set
                                       THEN Campo(Val(u.dados), k)
                                       ELSE Campo(Val(u.orig), k)
                              ELSE IF k = "email" THEN Some(Val(u.dados))
                                   ELSE Campo(Val(u.orig), k)

\* C11: each mutation is one atomic unit of work.  While a call is in
\* progress the table holds what it held before the call, so a GetByID by
\* another client returns the row as it was; the step that ends a call either
\* succeeds and applies the whole change, or fails (pre-check or store write)
\* and leaves the table exactly as it was before the call.
C11_UnidadeAtomica ==
    [][ /\ uow'.pc # "ocioso" =>
             /\ clientes' = uow'.antes
             /\ \A id \in IDs :
                  ObterClientePorId(clientes', id).corpo
                    = ObterClientePorId(uow'.antes, id).corpo
        /\ (uow' # uow /\ uow'.pc = "ocioso") =>
             IF uow'.status \in Sucessos
               THEN MudancaInteira(uow, AntesDaChamada, clientes')
               ELSE clientes' = AntesDaChamada
        /\ (resposta' # resposta /\ uow.pc # "ocioso") =>
             resposta'.corpo = ObterClientePorId(uow.antes, resposta'.id).corpo
      ]_vars

\* An Update that had set its attributes in the session failed at the store
\* write, and the row another client then read is the row as it was.
C11_Witness ==
    /\ uow.pc = "ocioso"
    /\ uow.op = "atualizar"
    /\ uow.erro = "IntegrityError"
    /\ resposta.op = "obter"
    /\ resposta.status = 200
    /\ Val(resposta.corpo).nome # NULL
    /\ resposta.corpo \subseteq clientes

\* C13: a request acquires one session when it arrives and no other while it
\* runs; the session is open exactly while the request is in progress, and is
\* eventually closed whether the domain operation returned or raised, so no
\* session is open once the request has finished.
C13_SessaoFechada ==
    /\ [](\A w \in Workers :
            sessoes[w] = IF reqs[w].pc = "ocioso" THEN 0 ELSE 1)
    /\ \A w \in Workers : (sessoes[w] > 0) ~> (sessoes[w] = 0)

\* A request whose operation raised a failure has finished with its session
\* closed, while another request is still holding its own.
C13_Witness ==
    \E w, v \in Workers :
        /\ reqs[w].pc = "ocioso"
        /\ reqs[w].erro \in FalhasDeNegocio
        /\ sessoes[w] = 0
        /\ reqs[v].pc = "levantou"
        /\ sessoes[v] = 1

====
